---- MODULE Spec2Model ----
(***************************************************************************)
(* Model of the report-ingestion and aggregation pipeline of analyze.py:   *)
(* the live MT5 adapter (get_mt5_live_data), the HTML report path          *)
(* (get_html_data, analyze_user_file and the parsers they call) and the    *)
(* orchestrator get_trade_data.                                            *)
(*                                                                         *)
(* Representation.                                                         *)
(*   - Money is an integer number of mills (1/1000 of the account          *)
(*     currency) while it is summed; an emitted (rounded) amount is an     *)
(*     integer number of cents.  round(x, 2) is Round2.                    *)
(*   - A ratio (winrate) is a record [n, d] with d > 0.                    *)
(*   - Text that the code parses is a tuple of one-character strings.      *)
(*   - A Python optional is a tuple: <<>> is None, <<v>> is the value v.   *)
(*   - A timestamp is a number of hours since the start of the year; the   *)
(*     hour of day is t % 24 and the month is t \div (24 * 31).            *)
(***************************************************************************)
EXTENDS Integers, Sequences, FiniteSets, TLC

VARIABLES
    MT5_AVAILABLE,  \* module flag set by the import at analyze.py:10-14
    conn,           \* the MT5 terminal connection: "closed" or "open"
    fileOpen,       \* TRUE while the report file handle is open
    pc,             \* position of the running pipeline call
    entry,          \* top-level function being run
    account,        \* Optional: mt5.account_info() of this run
    deals,          \* Optional: mt5.history_deals_get() of this run
    liveData,       \* Optional: first component of get_mt5_live_data's return
    liveError,      \* Optional: second component (the error text)
    html,           \* Optional: decoded text returned by _read_html_robust
    df,             \* the sorted frame the aggregation ran over
    htmlCalls,      \* number of times the report path was entered in this run
    liveCalls,      \* number of times the live adapter was entered in this run
    ret             \* Optional: value returned to the caller

\* the web layer (app/models.py, app/main/routes.py)
VARIABLES
    users,          \* the User rows: id -> [is_admin, is_subscribed,
                    \* subscription_end, history_file]
    uploads,        \* names of the files present in UPLOAD_FOLDER
    now,            \* datetime.utcnow(), in days
    request,        \* Optional: the request being handled
    response,       \* Optional: the response to the last handled request
    analyzeCall     \* Optional: the analyze.* call the last handler made

pipevars == <<MT5_AVAILABLE, conn, fileOpen, pc, entry, account, deals, liveData,
              liveError, html, df, htmlCalls, liveCalls, ret>>
webvars == <<users, uploads, now, request, response, analyzeCall>>
vars == <<MT5_AVAILABLE, conn, fileOpen, pc, entry, account, deals, liveData,
          liveError, html, df, htmlCalls, liveCalls, ret,
          users, uploads, now, request, response, analyzeCall>>

(***************************************************************************)
(* Bounds of the model.                                                    *)
(***************************************************************************)
MaxDeals == 3
MaxRows == 3
\* the clock advances at most MaxTicks times
MaxTicks == 2

(***************************************************************************)
(* Program constants.                                                      *)
(***************************************************************************)
TARGET_ACCOUNT == 297003305
\* a login that is not the configured one
OTHER_ACCOUNT == TARGET_ACCOUNT + 1
\* timedelta(days=30) of subscribe and payment_success
SUBSCRIPTION_DAYS == 30

None == <<>>
Some(v) == <<v>>
IsNone(o) == Len(o) = 0
Val(o) == o[1]

(***************************************************************************)
(* Arithmetic helpers.                                                     *)
(***************************************************************************)
Abs(i) == IF i < 0 THEN -i ELSE i

\* floor of a / b for b > 0 (TLC's \div already floors)
FloorDiv(a, b) == a \div b

\* Python round(): nearest multiple, ties to even. RoundDiv(a, b) is the
\* integer nearest to a / b for b > 0.
RoundDiv(a, b) ==
    LET q == FloorDiv(a, b)
        r == a - q * b
    IN  IF 2 * r < b THEN q
        ELSE IF 2 * r > b THEN q + 1
        ELSE IF q % 2 = 0 THEN q ELSE q + 1

\* round(x, 2) of an amount in mills, as cents.
Round2(mills) == RoundDiv(mills, 10)

\* round(x, 4) of the ratio a / b, as a ratio over 10000.
Round4(a, b) == [n |-> RoundDiv(a * 10000, b), d |-> 10000]

Ratio(a, b) == [n |-> a, d |-> b]
RatEq(p, q) == p.n * q.d = q.n * p.d
RatInUnit(p) == 0 <= p.n /\ p.n <= p.d

RECURSIVE Pow10(_)
Pow10(k) == IF k = 0 THEN 1 ELSE 10 * Pow10(k - 1)

(***************************************************************************)
(* Text helpers.                                                           *)
(***************************************************************************)
Digits == {"0", "1", "2", "3", "4", "5", "6", "7", "8", "9"}
DigitVal(c) ==
    CASE c = "0" -> 0 [] c = "1" -> 1 [] c = "2" -> 2 [] c = "3" -> 3
      [] c = "4" -> 4 [] c = "5" -> 5 [] c = "6" -> 6 [] c = "7" -> 7
      [] c = "8" -> 8 [] c = "9" -> 9
Whitespace == {" ", "nbsp", "\n", "\t"}

RECURSIVE RemoveChars(_, _)
RemoveChars(s, cs) ==
    IF Len(s) = 0 THEN <<>>
    ELSE IF Head(s) \in cs THEN RemoveChars(Tail(s), cs)
    ELSE <<Head(s)>> \o RemoveChars(Tail(s), cs)

\* re.sub(r"\s+", " ", s) on a text whose nbsp were already made spaces
RECURSIVE CollapseWs(_)
CollapseWs(s) ==
    IF Len(s) = 0 THEN <<>>
    ELSE IF Head(s) \in Whitespace
         THEN IF Len(s) > 1 /\ s[2] \in Whitespace
              THEN CollapseWs(Tail(s))
              ELSE <<" ">> \o CollapseWs(Tail(s))
         ELSE <<Head(s)>> \o CollapseWs(Tail(s))

Strip(s) ==
    LET a == IF Len(s) > 0 /\ s[1] = " " THEN Tail(s) ELSE s
    IN  IF Len(a) > 0 /\ a[Len(a)] = " " THEN SubSeq(a, 1, Len(a) - 1) ELSE a

\* _norm: None -> "", nbsp -> space, whitespace runs collapsed, stripped
_norm(o) ==
    IF IsNone(o) THEN <<>> ELSE Strip(CollapseWs(Val(o)))

\* length of the maximal run of digits of s that starts at position i
RECURSIVE DigitRun(_, _)
DigitRun(s, i) ==
    IF i <= Len(s) /\ s[i] \in Digits THEN 1 + DigitRun(s, i + 1) ELSE 0

\* the value of the k digits of s that start at position i
RECURSIVE DigitsVal(_, _, _)
DigitsVal(s, i, k) ==
    IF k = 0 THEN 0
    ELSE DigitsVal(s, i, k - 1) * 10 + DigitVal(s[i + k - 1])

(***************************************************************************)
(* Field parsers of the report path.                                       *)
(***************************************************************************)
\* float(s) for a text of the form [sign] digits [. digits], in mills;
\* None for any other text (the except branch of _parse_money).  Digits
\* beyond the third decimal are dropped: the model's texts carry at most 3.
ParseFloat(s) ==
    LET signed == Len(s) > 0 /\ s[1] \in {"-", "+"}
        sg == IF Len(s) > 0 /\ s[1] = "-" THEN -1 ELSE 1
        i == IF signed THEN 2 ELSE 1
        k == DigitRun(s, i)
        f == IF i + k <= Len(s) /\ s[i + k] = "." THEN DigitRun(s, i + k + 1) ELSE 0
        whole == DigitsVal(s, i, k)
        g == IF f > 3 THEN 3 ELSE f
        frac == DigitsVal(s, i + k + 1, g) * Pow10(3 - g)
    IN  IF k > 0 /\ i + k = Len(s) + 1
        THEN Some(sg * whole * 1000)
        ELSE IF i + k <= Len(s) /\ s[i + k] = "." /\ (k > 0 \/ f > 0)
                /\ i + k + 1 + f = Len(s) + 1
        THEN Some(sg * (whole * 1000 + frac))
        ELSE None

\* _parse_money(s): s is an Optional text
_parse_money(o) ==
    LET s == _norm(o)
    IN  IF Len(s) = 0 THEN None
        ELSE ParseFloat(RemoveChars(s, {" ", ","}))

\* _parse_int(s): the first match of -?\d+ after removing spaces and commas
_parse_int(o) ==
    LET s == RemoveChars(_norm(o), {" ", ","})
        first == {i \in 1..Len(s) : s[i] \in Digits}
    IN  IF Len(_norm(o)) = 0 \/ first = {} THEN None
        ELSE LET i == CHOOSE i \in first : \A j \in first : i <= j
                 v == DigitsVal(s, i, DigitRun(s, i))
             IN  Some(IF i > 1 /\ s[i - 1] = "-" THEN -v ELSE v)

\* The match of \(([-+]?\d+(?:\.\d+)?)%\) that starts at position i of s, as
\* the ratio the captured decimal denotes; None when there is no match there.
PctMatchAt(s, i) ==
    LET signed == i + 1 <= Len(s) /\ s[i + 1] \in {"-", "+"}
        sg == IF signed /\ s[i + 1] = "-" THEN -1 ELSE 1
        j == IF signed THEN i + 2 ELSE i + 1
        k == DigitRun(s, j)
        dot == j + k <= Len(s) /\ s[j + k] = "."
        f == IF dot THEN DigitRun(s, j + k + 1) ELSE 0
        e == IF dot THEN j + k + 1 + f ELSE j + k
    IN  IF i <= Len(s) /\ s[i] = "(" /\ k > 0 /\ (dot => f > 0)
           /\ e + 1 <= Len(s) /\ s[e] = "%" /\ s[e + 1] = ")"
        THEN Some(Ratio(sg * (DigitsVal(s, j, k) * Pow10(f) + DigitsVal(s, j + k + 1, f)),
                        Pow10(f)))
        ELSE None

\* re.search of the percentage pattern: the leftmost match
PctSearch(s) ==
    LET hits == {i \in 1..Len(s) : ~IsNone(PctMatchAt(s, i))}
    IN  IF hits = {} THEN None
        ELSE PctMatchAt(s, CHOOSE i \in hits : \A j \in hits : i <= j)

(***************************************************************************)
(* The decoded report.  A report text is modelled by what the regular      *)
(* expressions of the extractors find in it:                               *)
(*   blank     - the text is empty or whitespace only (html.strip() == "") *)
(*   fields    - for each summary label, the text of the first <b> element *)
(*               after the label's cell (None: label or <b> not found)     *)
(*   positions - None when no <b>Positions</b> heading exists, else the    *)
(*               <tr> elements of the block, each with                     *)
(*                 colspan2 - the row holds colspan="2"                    *)
(*                 dts      - the date-time tokens _DT_RE finds in the row *)
(*                 tds      - the inner texts of the row's <td> elements   *)
(* A cell text is a tuple of atoms: a word, a character, or "<tag>" for a  *)
(* markup tag.                                                             *)
(***************************************************************************)
L_PROFIT == "Total Net Profit:"
L_TRADES == "Total Trades:"
L_WINS == "Profit Trades (% of total):"
L_LOSSES == "Loss Trades (% of total):"

\* _extract_b_after_label: the normalised text of the bold value, or None
_extract_b_after_label(h, label) ==
    IF IsNone(h.fields[label]) THEN None ELSE Some(_norm(h.fields[label]))

\* _extract_count_pct_after_label: the pair (cnt, pct)
_extract_count_pct_after_label(h, label) ==
    LET txt == _extract_b_after_label(h, label)
    IN  IF IsNone(txt) THEN <<None, None>>
        ELSE <<_parse_int(txt), PctSearch(Val(txt))>>

\* A mutant of WinrateOf: the raw counts win over the labelled percentage.
WinrateOf_CountsFirst(wins, losses, winrate_pct) ==
    IF ~IsNone(wins) /\ ~IsNone(losses) /\ Val(wins) + Val(losses) > 0
    THEN Some(Ratio(Val(wins), Val(wins) + Val(losses)))
    ELSE IF ~IsNone(winrate_pct)
    THEN Some(Ratio(Val(winrate_pct).n, Val(winrate_pct).d * 100))
    ELSE None

\* analyze.py:243-247, the winrate of the summary
WinrateOf(wins, losses, winrate_pct) ==
    IF ~IsNone(winrate_pct)
    THEN Some(Ratio(Val(winrate_pct).n, Val(winrate_pct).d * 100))
    ELSE IF ~IsNone(wins) /\ ~IsNone(losses) /\ Val(wins) + Val(losses) > 0
    THEN Some(Ratio(Val(wins), Val(wins) + Val(losses)))
    ELSE None

_parse_results_summary(h) ==
    LET w == _extract_count_pct_after_label(h, L_WINS)
        l == _extract_count_pct_after_label(h, L_LOSSES)
    IN  [total_profit |-> _parse_money(_extract_b_after_label(h, L_PROFIT)),
         total_trades |-> _parse_int(_extract_b_after_label(h, L_TRADES)),
         wins |-> w[1],
         losses |-> l[1],
         winrate |-> WinrateOf(w[1], l[1], w[2])]

\* Python's "x or 0" for an Optional number
OrZero(o) == IF IsNone(o) THEN 0 ELSE Val(o)
\* float(results.get("winrate") or 0.0)
OrZeroRatio(o) == IF IsNone(o) \/ Val(o).n = 0 THEN Ratio(0, 1) ELSE Val(o)

(***************************************************************************)
(* The positions extractor.                                                *)
(***************************************************************************)
\* datetime.strptime(s, "%Y.%m.%d %H:%M:%S") on a token [mo, d, h] (the
\* year, minutes and seconds of the model's tokens are fixed and valid):
\* None when a field is out of range, else the hours since the year began.
DaysIn(mo) == IF mo \in {4, 6, 9, 11} THEN 30 ELSE IF mo = 2 THEN 28 ELSE 31
_parse_dt(tok) ==
    IF tok.mo \in 1..12 /\ tok.d \in 1..DaysIn(tok.mo) /\ tok.h \in 0..23
    THEN Some(((tok.mo - 1) * 31 + (tok.d - 1)) * 24 + tok.h)
    ELSE None

\* _strip_tags: tags removed, then _norm
_strip_tags(cell) == _norm(Some(RemoveChars(cell, {"<tag>"})))

\* the structural filter of analyze.py:302-311
RowSeen(tr) == tr.colspan2 /\ Len(tr.dts) >= 1 /\ Len(tr.tds) >= 6

\* the trade a row emits (analyze.py:315-327), None when it is skipped
RowTrade(tr) ==
    LET symbol == IF Len(tr.tds) >= 3 THEN _strip_tags(tr.tds[3]) ELSE <<>>
        profit == _parse_money(Some(_strip_tags(tr.tds[Len(tr.tds)])))
    IN  IF ~RowSeen(tr) \/ Len(symbol) = 0 \/ IsNone(profit) THEN None
        ELSE Some([symbol |-> symbol, profit |-> Val(profit),
                   t |-> _parse_dt(tr.dts[Len(tr.dts)])])

RECURSIVE ParsedRows(_)
ParsedRows(trs) ==
    IF Len(trs) = 0 THEN <<>> ELSE RowTrade(Head(trs)) \o ParsedRows(Tail(trs))

RECURSIVE CountSeen(_)
CountSeen(trs) ==
    IF Len(trs) = 0 THEN 0
    ELSE (IF RowSeen(Head(trs)) THEN 1 ELSE 0) + CountSeen(Tail(trs))

\* one pass of the loop of analyze.py:300-327 over the row tr
PositionsStep_SeenAfterSymbol(st, tr) ==
    IF ~tr.colspan2 \/ Len(tr.dts) < 1 \/ Len(tr.tds) < 6 THEN st
    ELSE LET symbol == _strip_tags(tr.tds[3])
             profit == _parse_money(Some(_strip_tags(tr.tds[Len(tr.tds)])))
         IN  IF Len(symbol) = 0 THEN st
             ELSE IF IsNone(profit) THEN [st EXCEPT !.rows_seen = @ + 1]
             ELSE [rows |-> Append(st.rows,
                                   [symbol |-> symbol, profit |-> Val(profit),
                                    t |-> _parse_dt(tr.dts[Len(tr.dts)])]),
                   rows_seen |-> st.rows_seen + 1,
                   rows_parsed |-> st.rows_parsed + 1]

PositionsStep(st, tr) ==
    IF ~tr.colspan2 THEN st
    ELSE IF Len(tr.dts) < 1 THEN st
    ELSE IF Len(tr.tds) < 6 THEN st
    ELSE LET seen == [st EXCEPT !.rows_seen = @ + 1]
             symbol == IF Len(tr.tds) >= 3 THEN _strip_tags(tr.tds[3]) ELSE <<>>
         IN  IF Len(symbol) = 0 THEN seen
             ELSE LET close_time == _parse_dt(tr.dts[Len(tr.dts)])
                      profit == _parse_money(Some(_strip_tags(tr.tds[Len(tr.tds)])))
                  IN  IF IsNone(profit) THEN seen
                      ELSE [seen EXCEPT
                              !.rows_parsed = @ + 1,
                              !.rows = Append(@, [symbol |-> symbol,
                                                  profit |-> Val(profit),
                                                  t |-> close_time])]

\* the loop over the <tr> elements of the block, from the first to the last
RECURSIVE PositionsLoop(_, _)
PositionsLoop(st, trs) ==
    IF Len(trs) = 0 THEN st
    ELSE PositionsLoop(PositionsStep(st, Head(trs)), Tail(trs))

\* _parse_positions_rows_for_charts: the pair (rows, dbg)
_parse_positions_rows_for_charts(h) ==
    IF IsNone(h.positions)
    THEN <<<<>>, [positions_block_found |-> FALSE, rows_seen |-> 0, rows_parsed |-> 0]>>
    ELSE LET end == PositionsLoop([rows |-> <<>>, rows_seen |-> 0, rows_parsed |-> 0],
                                  Val(h.positions))
         IN  <<end.rows, [positions_block_found |-> TRUE,
                          rows_seen |-> end.rows_seen,
                          rows_parsed |-> end.rows_parsed]>>

(***************************************************************************)
(* The aggregator.  A trade is [symbol, profit, t]: symbol a text, profit  *)
(* in mills, t an Optional timestamp.                                      *)
(***************************************************************************)
\* The symbols of the model in the order Python compares their names.
SymbolOrder == <<"EURUSD", "GBPUSD", "XAUUSD">>
SymRank(sym) == CHOOSE k \in 1..Len(SymbolOrder) : SymbolOrder[k] = sym[1]

HourOf(t) == t % 24
MonthOf(t) == t \div (24 * 31)

Perms(n) == {q \in [1..n -> 1..n] : \A i, j \in 1..n : q[i] = q[j] => i = j}
Permuted(s, q) == [i \in 1..Len(s) |-> s[q[i]]]

\* sort_values with the default kind ("quicksort", not stable): every
\* arrangement of s in ascending order of key (key[i] the sort key of s[i])
\* is a possible outcome; the stable one is among them.
SortOutcomes(s, key) ==
    {Permuted(s, q) : q \in {r \in Perms(Len(s)) :
                               \A i \in 1..(Len(s) - 1) : key[r[i]] <= key[r[i + 1]]}}

HasT(r) == ~IsNone(r.t)
NoT(r) == IsNone(r.t)
TimeKeys(f) == [i \in 1..Len(f) |-> Val(f[i].t)]

\* analyze.py:343-346: sort by t with the missing timestamps last (pandas
\* appends the rows without a key in their original order), or the rows as
\* they are when no row has a timestamp.
SortedFrames(rows) ==
    IF \E i \in 1..Len(rows) : HasT(rows[i])
    THEN {o \o SelectSeq(rows, NoT) :
            o \in SortOutcomes(SelectSeq(rows, HasT), TimeKeys(SelectSeq(rows, HasT)))}
    ELSE {rows}

RECURSIVE SumProfit(_)
SumProfit(f) == IF Len(f) = 0 THEN 0 ELSE Head(f).profit + SumProfit(Tail(f))

\* A mutant of EquityCurve: the running sum is rounded at every step.
RECURSIVE RoundedRunningSum(_, _)
RoundedRunningSum(f, k) ==
    IF k = 0 THEN 0 ELSE Round2(RoundedRunningSum(f, k - 1) + f[k].profit) * 10
EquityCurve_RoundEachStep(f) ==
    [k \in 1..Len(f) |-> [x |-> k, y |-> Round2(RoundedRunningSum(f, k))]]

\* analyze.py:348-352 and 105-110: the running sum, rounded when emitted
EquityCurve(f) ==
    [k \in 1..Len(f) |-> [x |-> k, y |-> Round2(SumProfit(SubSeq(f, 1, k)))]]

\* the ascending sequence of a finite set of integers
RECURSIVE Ascending(_)
Ascending(S) ==
    IF S = {} THEN <<>>
    ELSE LET m == CHOOSE m \in S : \A x \in S : m <= x
         IN  <<m>> \o Ascending(S \ {m})

\* the sum of the profits of the rows of f whose key is k
RECURSIVE SumWhere(_, _, _)
SumWhere(f, key, k) ==
    IF Len(f) = 0 THEN 0
    ELSE (IF Head(key) = k THEN Head(f).profit ELSE 0) + SumWhere(Tail(f), Tail(key), k)

\* groupby(key)["profit"].sum(): one [key, sum] per key, in ascending key
\* order (key[i] the group key of f[i])
GroupSums(f, key) ==
    LET ks == Ascending({key[i] : i \in 1..Len(f)})
    IN  [j \in 1..Len(ks) |-> [key |-> ks[j], sum |-> SumWhere(f, key, ks[j])]]

SymKeys(f) == [i \in 1..Len(f) |-> SymRank(f[i].symbol)]
HourKeys(f) == [i \in 1..Len(f) |-> HourOf(Val(f[i].t))]
MonthKeys(f) == [i \in 1..Len(f) |-> MonthOf(Val(f[i].t))]
DescendingSumKeys_Ascending(g) == [j \in 1..Len(g) |-> g[j].sum]
\* sort_values(ascending=False) of the sums
DescendingSumKeys(g) == [j \in 1..Len(g) |-> -g[j].sum]

\* analyze.py:354-357 and 112-116: the possible profit_by_symbol series
ProfitBySymbol(f) ==
    {[j \in 1..Len(g) |-> [symbol |-> SymbolOrder[g[j].key], profit |-> Round2(g[j].sum)]] :
        g \in SortOutcomes(GroupSums(f, SymKeys(f)), DescendingSumKeys(GroupSums(f, SymKeys(f))))}

\* the keys of a sequence, each once, in the order of first appearance
RECURSIVE FirstSeen(_, _)
FirstSeen(key, seen) ==
    IF Len(key) = 0 THEN <<>>
    ELSE IF Head(key) \in seen THEN FirstSeen(Tail(key), seen)
    ELSE <<Head(key)>> \o FirstSeen(Tail(key), seen \cup {Head(key)})

ProfitByHour_FirstSeen(f) ==
    LET ft == SelectSeq(f, HasT)
        ks == FirstSeen(HourKeys(ft), {})
    IN  [j \in 1..Len(ks) |->
            [hour |-> ks[j], profit |-> Round2(SumWhere(ft, HourKeys(ft), ks[j]))]]

\* analyze.py:359-366 and 118-123
ProfitByHour(f) ==
    LET g == GroupSums(SelectSeq(f, HasT), HourKeys(SelectSeq(f, HasT)))
    IN  [j \in 1..Len(g) |-> [hour |-> g[j].key, profit |-> Round2(g[j].sum)]]

\* analyze.py:125-130
MonthlyProfit(f) ==
    LET g == GroupSums(f, MonthKeys(f))
    IN  [j \in 1..Len(g) |-> [month |-> g[j].key, profit |-> Round2(g[j].sum)]]

\* _build_charts on the frame the sort produced: the possible chart records
_build_charts(f) ==
    IF Len(f) = 0
    THEN {[equity_curve |-> <<>>, profit_by_symbol |-> <<>>, profit_by_hour |-> <<>>]}
    ELSE {[equity_curve |-> EquityCurve(f), profit_by_symbol |-> s,
           profit_by_hour |-> ProfitByHour(f)] : s \in ProfitBySymbol(f)}

(***************************************************************************)
(* The live adapter's inputs and results.                                  *)
(***************************************************************************)
LoginText(l) == IF l = TARGET_ACCOUNT THEN "297003305" ELSE "other login"

\* what mt5.account_info() may return
Acct(l, p) ==
    [login |-> l, profit |-> p, balance |-> 1000004, equity |-> 1000004 + p,
     margin |-> 20000, margin_free |-> 980004 + p]
AccountSet == {Acct(TARGET_ACCOUNT, 0), Acct(TARGET_ACCOUNT, 2504), Acct(OTHER_ACCOUNT, 0)}

\* the deals mt5.history_deals_get() may return: entry 0 is the entry leg of
\* a position, entry 1 its exit leg; time in hours
Deal(e, sym, p, t) == [entry |-> e, symbol |-> <<sym>>, profit |-> p, time |-> t]
DealSet ==
    {Deal(0, "EURUSD", 0, 10),
     Deal(1, "EURUSD", 1004, 34),
     Deal(1, "GBPUSD", -500, 12),
     Deal(1, "EURUSD", 0, 12),
     Deal(1, "GBPUSD", 4, 800)}
DealSeqs == UNION {[1..n -> DealSet] : n \in 0..MaxDeals}

\* the texts str(e) of the exceptions the try block may catch
ExcMessages == {<<>>, <<"KeyError: 'entry'">>, <<"IPC error: ", "Wrong account">>}

Contains(text, atom) == \E i \in 1..Len(text) : text[i] = atom

IsExit(d) == d.entry = 1
ToTrade(d) == [symbol |-> d.symbol, profit |-> d.profit, t |-> Some(d.time)]
ClosedDeals(ds) == LET c == SelectSeq(ds, IsExit) IN [i \in 1..Len(c) |-> ToTrade(c[i])]

IsWin(r) == r.profit > 0
IsLoss(r) == r.profit < 0

\* analyze.py:55-70 (withMargin) and 80-93 (without): the result for an
\* account with no deal, or with no exit deal
LiveEmptyResult(a, withMargin) ==
    LET base == [data_source |-> "MT5_LIVE", total_trades |-> 0,
                 total_profit |-> Round2(a.profit),
                 wins |-> 0, losses |-> 0, winrate |-> Ratio(0, 1),
                 equity_curve |-> <<>>, profit_by_symbol |-> <<>>,
                 profit_by_hour |-> <<>>, monthly_profit |-> <<>>,
                 balance |-> Round2(a.balance), equity |-> Round2(a.equity)]
    IN  IF withMargin
        THEN base @@ [margin |-> Round2(a.margin), free_margin |-> Round2(a.margin_free)]
        ELSE base

\* analyze.py:99-103 and 138: round(wins / total_trades, 4)
LiveWinrate(f) ==
    IF Len(f) > 0 THEN Round4(Len(SelectSeq(f, IsWin)), Len(f)) ELSE Ratio(0, 10000)

\* analyze.py:95-147: the possible results over the sorted frame f
LiveResults(a, f) ==
    {[data_source |-> "MT5_LIVE", total_trades |-> Len(f),
      total_profit |-> Round2(SumProfit(f)),
      wins |-> Len(SelectSeq(f, IsWin)), losses |-> Len(SelectSeq(f, IsLoss)),
      winrate |-> LiveWinrate(f),
      equity_curve |-> EquityCurve(f), profit_by_symbol |-> s,
      profit_by_hour |-> ProfitByHour(f), monthly_profit |-> MonthlyProfit(f),
      balance |-> Round2(a.balance), equity |-> Round2(a.equity),
      margin |-> Round2(a.margin), free_margin |-> Round2(a.margin_free)] :
        s \in ProfitBySymbol(f)}

(***************************************************************************)
(* The report files the model reads.                                       *)
(***************************************************************************)
T_7_70 == <<"7", " ", "(", "7", "0", ".", "0", "0", "%", ")">>
T_6_6667 == <<"6", " ", "(", "6", "6", ".", "6", "7", "%", ")">>
T_7_150 == <<"7", " ", "(", "1", "5", "0", "%", ")">>
T_0_NEG5 == <<"0", " ", "(", "-", "5", "%", ")">>
T_0_0 == <<"0", " ", "(", "0", ".", "0", "0", "%", ")">>
T_3_30 == <<"3", " ", "(", "3", "0", ".", "0", "0", "%", ")">>

ProfitTradesTexts ==
    {None, Some(T_7_70), Some(T_6_6667), Some(T_7_150), Some(T_0_NEG5), Some(T_0_0),
     Some(<<"7">>), Some(<<"0">>), Some(<<" ">>), Some(<<"-", "2">>)}
LossTradesTexts == {None, Some(T_3_30), Some(<<"3">>), Some(<<"0">>)}
NetProfitTexts ==
    {None, Some(<<"1", "5", "0", ".", "2", "5">>),
     Some(<<"1", "nbsp", "2", "3", "4", ".", "5", "0">>), Some(<<"n", "/", "a">>)}
TotalTradesTexts == {None, Some(<<" ", "1", "0", " ">>)}

Fields(np, tt, w, l) ==
    (L_PROFIT :> np) @@ (L_TRADES :> tt) @@ (L_WINS :> w) @@ (L_LOSSES :> l)

Tok(mo, d, h) == [mo |-> mo, d |-> d, h |-> h]
Cell(a) == <<"<tag>", a, "<tag>">>
Tds(sym, profit) == <<Cell("1"), Cell("x"), sym, Cell("buy"), Cell("x"), profit>>
Tr(c, dts, sym, profit) == [colspan2 |-> c, dts |-> dts, tds |-> Tds(sym, profit)]
\* a row of five cells
ShortTr(dts, sym, profit) ==
    [colspan2 |-> TRUE, dts |-> dts, tds |-> Tail(Tds(sym, profit))]

\* rows that emit a trade: two close-time tokens, a negative amount with a
\* thousands space, three symbols with equal profits, an invalid month
TradeRowSet ==
    {Tr(TRUE, <<Tok(1, 2, 9), Tok(1, 2, 10)>>, Cell("EURUSD"), <<"1", "0", "0", ".", "0", "0">>),
     Tr(TRUE, <<Tok(1, 2, 10)>>, Cell("GBPUSD"), <<"-", "1", " ", "2", "3", "4", ".", "5", "0">>),
     Tr(TRUE, <<Tok(1, 1, 14)>>, Cell("GBPUSD"), <<"1", "0", "0", ".", "0", "0">>),
     Tr(TRUE, <<Tok(1, 2, 10)>>, Cell("XAUUSD"), <<"1", "0", "0", ".", "0", "0">>),
     Tr(TRUE, <<Tok(13, 1, 14)>>, Cell("EURUSD"), <<"0", ".", "0", "0", "4">>)}
\* a row that emits a trade and rows that emit none: an empty symbol, an
\* unparseable profit, no colspan="2", no date token, five cells
FilterRowSet ==
    {Tr(TRUE, <<Tok(1, 2, 9), Tok(1, 2, 10)>>, Cell("EURUSD"), <<"1", "0", "0", ".", "0", "0">>),
     Tr(TRUE, <<Tok(1, 2, 10)>>, <<"<tag>", " ">>, <<"7">>),
     Tr(TRUE, <<Tok(1, 2, 10)>>, Cell("XAUUSD"), <<"n", "/", "a">>),
     Tr(FALSE, <<Tok(1, 2, 10)>>, Cell("XAUUSD"), <<"7">>),
     Tr(TRUE, <<>>, Cell("XAUUSD"), <<"7">>),
     ShortTr(<<Tok(1, 2, 10)>>, Cell("XAUUSD"), <<"7">>)}
TrSet == TradeRowSet \cup FilterRowSet
\* the <tr> sequences of a positions block: of rows that emit trades, or of
\* rows the loop filters
TrSeqs ==
    UNION {[1..n -> TradeRowSet] : n \in 0..MaxRows}
    \cup UNION {[1..n -> FilterRowSet] : n \in 0..MaxRows}

DefaultFields == Fields(Some(<<"1", "5", "0", ".", "2", "5">>), Some(<<" ", "1", "0", " ">>),
                        Some(<<"7">>), Some(<<"3">>))

\* The decoded texts _read_html_robust may return: a blank text, reports
\* whose summary block varies, and reports whose positions block varies.
Reports ==
    {[blank |-> TRUE, fields |-> DefaultFields, positions |-> None]}
    \cup {[blank |-> FALSE, fields |-> Fields(np, tt, w, l), positions |-> None] :
            np \in NetProfitTexts, tt \in TotalTradesTexts,
            w \in ProfitTradesTexts, l \in LossTradesTexts}
    \cup {[blank |-> FALSE, fields |-> DefaultFields, positions |-> Some(trs)] :
            trs \in TrSeqs}

\* analyze.py:385-401 and 444-459: the possible results for the text h
ReportResults(h, source) ==
    LET results == _parse_results_summary(h)
        parsed == _parse_positions_rows_for_charts(h)
        base(charts) ==
            [data_source |-> source,
             total_trades |-> OrZero(results.total_trades),
             total_profit |-> Round2(OrZero(results.total_profit)),
             wins |-> OrZero(results.wins),
             losses |-> OrZero(results.losses),
             winrate |-> OrZeroRatio(results.winrate),
             equity_curve |-> charts.equity_curve,
             profit_by_symbol |-> charts.profit_by_symbol,
             profit_by_hour |-> charts.profit_by_hour,
             monthly_profit |-> <<>>]
    IN  UNION {{<<f, IF source = "HTML"
                     THEN base(c) @@ [chart_debug |-> parsed[2]]
                     ELSE base(c)>> : c \in _build_charts(f)} :
               f \in SortedFrames(parsed[1])}


(***************************************************************************)
(* The registered users.                                                   *)
(***************************************************************************)
Users == {1, 2}
\* the id of the user make_admin.py looks up by e-mail
ADMIN_USER == 1
\* app/models.py:13-18: the column defaults of a new User row
NewUser == [is_admin |-> FALSE, is_subscribed |-> FALSE,
            subscription_end |-> None, history_file |-> None]

(***************************************************************************)
(* The pipeline.                                                           *)
(***************************************************************************)
Init ==
    /\ MT5_AVAILABLE \in BOOLEAN
    /\ conn = "closed"
    /\ fileOpen = FALSE
    /\ pc = "idle"
    /\ entry = "none"
    /\ account = None
    /\ deals = None
    /\ liveData = None
    /\ liveError = None
    /\ html = None
    /\ df = <<>>
    /\ htmlCalls = 0
    /\ liveCalls = 0
    /\ ret = None
    /\ users = [u \in Users |-> NewUser]
    /\ uploads = {}
    /\ now = 0
    /\ request = None
    /\ response = None
    /\ analyzeCall = None

\* get_mt5_live_data returns (data, error) to get_trade_data; its locals
\* (account, deals) end with it
LiveReturn(data, error) ==
    /\ liveData' = data
    /\ liveError' = error
    /\ account' = None
    /\ deals' = None
    /\ pc' = "dispatch"

\* a caller invokes get_trade_data(), which calls get_mt5_live_data()
CallGetTradeData ==
    /\ pc = "idle"
    /\ entry' = "get_trade_data"
    /\ liveCalls' = liveCalls + 1
    /\ pc' = "live_start"
    /\ UNCHANGED <<MT5_AVAILABLE, conn, fileOpen, account, deals, liveData,
                   liveError, html, df, htmlCalls, ret>>
    /\ UNCHANGED webvars

\* analyze.py:31-35: the package check and mt5.initialize()
LiveStart ==
    /\ pc = "live_start"
    /\ IF ~MT5_AVAILABLE
       THEN /\ LiveReturn(None, Some(<<"MetaTrader5 package not installed">>))
            /\ conn' = conn
       ELSE \E ok \in BOOLEAN :
              IF ok
              THEN /\ conn' = "open"
                   /\ pc' = "live_account"
                   /\ UNCHANGED <<liveData, liveError, account, deals>>
              ELSE /\ LiveReturn(None, Some(<<"MT5 init failed: ", "last_error">>))
                   /\ conn' = conn
    /\ UNCHANGED <<MT5_AVAILABLE, fileOpen, entry, html, df, htmlCalls, liveCalls, ret>>
    /\ UNCHANGED webvars

\* analyze.py:39-45: mt5.account_info() and the account check
LiveAccountInfo ==
    /\ pc = "live_account"
    /\ \E a \in {None} \cup {Some(x) : x \in AccountSet} :
         IF IsNone(a)
         THEN LiveReturn(None, Some(<<"Could not get account info">>))
         ELSE IF TARGET_ACCOUNT # 0 /\ Val(a).login # TARGET_ACCOUNT
         THEN LiveReturn(None, Some(<<"Wrong account", " (", LoginText(Val(a).login),
                                      "), need ", LoginText(TARGET_ACCOUNT)>>))
         ELSE /\ account' = a
              /\ pc' = "live_deals"
              /\ UNCHANGED <<liveData, liveError, deals>>
    /\ UNCHANGED <<MT5_AVAILABLE, conn, fileOpen, entry, html, df, htmlCalls,
                   liveCalls, ret>>
    /\ UNCHANGED webvars

\* analyze.py:51-93: mt5.history_deals_get() and the two early returns
LiveHistoryDeals ==
    /\ pc = "live_deals"
    /\ \E ds \in {None} \cup {Some(x) : x \in DealSeqs} :
         IF IsNone(ds) \/ Len(Val(ds)) = 0
         THEN LiveReturn(Some(LiveEmptyResult(Val(account), TRUE)), None)
         ELSE IF Len(ClosedDeals(Val(ds))) = 0
         THEN LiveReturn(Some(LiveEmptyResult(Val(account), FALSE)), None)
         ELSE /\ deals' = ds
              /\ pc' = "live_agg"
              /\ UNCHANGED <<liveData, liveError, account>>
    /\ UNCHANGED <<MT5_AVAILABLE, conn, fileOpen, entry, html, df, htmlCalls,
                   liveCalls, ret>>
    /\ UNCHANGED webvars

\* analyze.py:95-147: the sort by time and the aggregation
LiveAggregate ==
    /\ pc = "live_agg"
    /\ \E f \in SortOutcomes(ClosedDeals(Val(deals)), TimeKeys(ClosedDeals(Val(deals)))) :
         \E r \in LiveResults(Val(account), f) :
           /\ df' = f
           /\ LiveReturn(Some(r), None)
    /\ UNCHANGED <<MT5_AVAILABLE, conn, fileOpen, entry, html, htmlCalls,
                   liveCalls, ret>>
    /\ UNCHANGED webvars

\* analyze.py:149-152: an exception inside the try block is caught and its
\* text returned; the finally clause does nothing
LiveException ==
    /\ pc \in {"live_account", "live_deals", "live_agg"}
    /\ \E msg \in ExcMessages : LiveReturn(None, Some(msg))
    /\ UNCHANGED <<MT5_AVAILABLE, conn, fileOpen, entry, html, df, htmlCalls,
                   liveCalls, ret>>
    /\ UNCHANGED webvars

ErrorResult(error) ==
    [data_source |-> "ERROR", error |-> error, total_trades |-> 0, total_profit |-> 0,
     wins |-> 0, losses |-> 0, winrate |-> Ratio(0, 1), equity_curve |-> <<>>,
     profit_by_symbol |-> <<>>, profit_by_hour |-> <<>>, monthly_profit |-> <<>>]

\* A mutant of IsWrongAccount: the mismatch is not told from other failures.
IsWrongAccount_Never(error) == FALSE

\* analyze.py:416: error and "Wrong account" in error
IsWrongAccount(error) ==
    ~IsNone(error) /\ Len(Val(error)) > 0 /\ Contains(Val(error), "Wrong account")

\* A mutant of Dispatch: the early return of the live data is missing.
Dispatch_NoSuccessReturn ==
    /\ pc = "dispatch"
    /\ IF IsWrongAccount(liveError)
       THEN /\ ret' = Some(ErrorResult(Val(liveError)))
            /\ pc' = "done"
            /\ htmlCalls' = htmlCalls
       ELSE /\ htmlCalls' = htmlCalls + 1
            /\ pc' = "exists"
            /\ ret' = ret
    /\ UNCHANGED <<MT5_AVAILABLE, conn, fileOpen, entry, account, deals, liveData,
                   liveError, html, df, liveCalls>>
    /\ UNCHANGED webvars

\* analyze.py:412-433: get_trade_data after the live adapter returned
Dispatch ==
    /\ pc = "dispatch"
    /\ IF ~IsNone(liveData)
       THEN /\ ret' = liveData
            /\ pc' = "done"
            /\ htmlCalls' = htmlCalls
       ELSE IF IsWrongAccount(liveError)
       THEN /\ ret' = Some(ErrorResult(Val(liveError)))
            /\ pc' = "done"
            /\ htmlCalls' = htmlCalls
       ELSE /\ htmlCalls' = htmlCalls + 1
            /\ pc' = "exists"
            /\ ret' = ret
    /\ UNCHANGED <<MT5_AVAILABLE, conn, fileOpen, entry, account, deals, liveData,
                   liveError, html, df, liveCalls>>
    /\ UNCHANGED webvars

\* a caller invokes analyze_user_file(file_path)
CallAnalyzeUserFile ==
    /\ pc = "idle"
    /\ entry' = "analyze_user_file"
    /\ pc' = "exists"
    /\ UNCHANGED <<MT5_AVAILABLE, conn, fileOpen, account, deals, liveData,
                   liveError, html, df, htmlCalls, liveCalls, ret>>
    /\ UNCHANGED webvars

NotFoundText ==
    IF entry = "get_trade_data" THEN <<"history.html not found at: ", "html_path">>
    ELSE <<"File not found">>
EmptyText ==
    IF entry = "get_trade_data" THEN <<"history.html appears empty after decoding.">>
    ELSE <<"File appears empty">>

\* analyze.py:378-379 and 437-438: os.path.exists
Exists ==
    /\ pc = "exists"
    /\ \E exists \in BOOLEAN :
         IF exists
         THEN pc' = "open" /\ ret' = ret
         ELSE pc' = "done" /\ ret' = Some([error |-> NotFoundText])
    /\ UNCHANGED <<MT5_AVAILABLE, conn, fileOpen, entry, account, deals, liveData,
                   liveError, html, df, htmlCalls, liveCalls>>
    /\ UNCHANGED webvars

\* analyze.py:159: open(path, "rb") acquires the handle, or raises OSError
\* (a directory, a file without read permission, a file removed meanwhile)
OpenFile ==
    /\ pc = "open"
    /\ \E ok \in BOOLEAN :
         IF ok
         THEN pc' = "read" /\ fileOpen' = TRUE
         ELSE pc' = "raised" /\ fileOpen' = fileOpen
    /\ UNCHANGED <<MT5_AVAILABLE, conn, entry, account, deals, liveData,
                   liveError, html, df, htmlCalls, liveCalls, ret>>
    /\ UNCHANGED webvars

\* analyze.py:160-178: f.read() inside the with block, which closes the
\* file on the way out, then the decoding; a failed read raises
ReadFile ==
    /\ pc = "read"
    /\ fileOpen' = FALSE
    /\ \/ \E h \in Reports : html' = Some(h) /\ pc' = "parse"
       \/ html' = html /\ pc' = "raised"
    /\ UNCHANGED <<MT5_AVAILABLE, conn, entry, account, deals, liveData,
                   liveError, df, htmlCalls, liveCalls, ret>>
    /\ UNCHANGED webvars

\* analyze.py:382-401 and 441-459: the blank check, the extractors, the
\* aggregation and the result
ParseReport ==
    /\ pc = "parse"
    /\ IF Val(html).blank
       THEN /\ ret' = Some([error |-> EmptyText])
            /\ df' = df
       ELSE \E fr \in ReportResults(Val(html),
                                    IF entry = "get_trade_data" THEN "HTML" ELSE "UPLOADED") :
              /\ df' = fr[1]
              /\ ret' = Some(fr[2])
    /\ pc' = "done"
    /\ UNCHANGED <<MT5_AVAILABLE, conn, fileOpen, entry, account, deals, liveData,
                   liveError, html, htmlCalls, liveCalls>>
    /\ UNCHANGED webvars

\* the call returned or raised; the caller may call again.  The connection
\* and the module flag outlive the call, everything else is local to it.
Return ==
    /\ pc \in {"done", "raised"}
    /\ pc' = "idle"
    /\ entry' = "none"
    /\ account' = None
    /\ deals' = None
    /\ liveData' = None
    /\ liveError' = None
    /\ html' = None
    /\ df' = <<>>
    /\ htmlCalls' = 0
    /\ liveCalls' = 0
    /\ ret' = None
    /\ UNCHANGED <<MT5_AVAILABLE, conn, fileOpen>>
    /\ UNCHANGED webvars

Next ==
    \/ CallGetTradeData
    \/ LiveStart
    \/ LiveAccountInfo
    \/ LiveHistoryDeals
    \/ LiveAggregate
    \/ LiveException
    \/ Dispatch
    \/ CallAnalyzeUserFile
    \/ Exists
    \/ OpenFile
    \/ ReadFile
    \/ ParseReport
    \/ Return

Spec == Init /\ [][Next]_vars

(***************************************************************************)
(* The web layer: the User model and the routes of app/main/routes.py     *)
(* that change what /api/data answers.  A request is [user, route, file]: *)
(* user is the Optional id of the logged-in user (None: anonymous), file  *)
(* says what a POST to /upload carries.  A handler's call into analyze.py *)
(* is recorded in analyzeCall; what the call does is the pipeline above,  *)
(* of which the handler sees only whether it returned an analysis,        *)
(* returned an error object, or raised.                                    *)
(***************************************************************************)
Routes == {"upload", "subscribe", "payment_success", "api_data"}
\* a POST without a file, with a file named *.html or *.htm, with another
Files == {"none", "html", "other"}
Requests ==
    {[user |-> who, route |-> r, file |-> f] :
        who \in {None} \cup {Some(u) : u \in Users}, r \in Routes, f \in Files}

\* routes.py:66: f"user_{current_user.id}_history.html"
FileName(id) == <<"user_", id, "_history.html">>

\* app/models.py:31-39
is_subscription_active(usr) ==
    IF usr.is_admin THEN TRUE
    ELSE IF ~usr.is_subscribed THEN FALSE
    ELSE IF IsNone(usr.subscription_end) THEN FALSE
    ELSE now < Val(usr.subscription_end)

Redirect(target) == [status |-> 302, kind |-> "redirect", body |-> target, flash |-> ""]
Page(template) == [status |-> 200, kind |-> "page", body |-> template, flash |-> ""]
Json(status, body) == [status |-> status, kind |-> "json", body |-> body, flash |-> ""]
\* flash(message) before the answer
Flash(resp, message) == [resp EXCEPT !.flash = message]

NoHistoryText == "error: No trade history uploaded. Please upload your MT5 report."

\* how a call of analyze_user_file or get_trade_data ends for its caller
CallOutcomes == {"analysis", "error", "raised"}
\* routes.py:157-158, 160-161, 164-165: jsonify of what the call returned,
\* or the 500 answer of the except clause
JsonOf(outcome) ==
    IF outcome = "raised" THEN Json(500, "error: exception")
    ELSE IF outcome = "error" THEN Json(200, "error: analyzer")
    ELSE Json(200, "analysis")

AnalyzeUserFile(path) == [fn |-> "analyze_user_file", path |-> path]
GetTradeData == [fn |-> "get_trade_data", path |-> <<>>]

\* flask_login's login_required and routes.py:16-26: the answer of the two
\* decorators, None when the request passes them
login_required(r) ==
    IF IsNone(r.user) THEN Some(Redirect("auth.login")) ELSE None
subscription_required(r) ==
    IF IsNone(r.user) THEN Some(Redirect("auth.login"))
    ELSE IF ~is_subscription_active(users[Val(r.user)])
    THEN Some(Flash(Redirect("main.pricing"), "Please subscribe to access this feature."))
    ELSE None
Guarded(r) ==
    IF ~IsNone(login_required(r)) THEN login_required(r) ELSE subscription_required(r)

\* a client sends a request
Request ==
    /\ IsNone(request)
    /\ \E r \in Requests :
         /\ (r.route # "upload" => r.file = "none")
         /\ request' = Some(r)
    /\ response' = None
    /\ analyzeCall' = None
    /\ UNCHANGED <<users, uploads, now>>
    /\ UNCHANGED pipevars

\* routes.py:46-81
upload ==
    /\ ~IsNone(request) /\ Val(request).route = "upload"
    /\ LET r == Val(request)
       IN  IF ~IsNone(Guarded(r))
           THEN /\ response' = Guarded(r)
                /\ UNCHANGED <<users, uploads>>
           ELSE IF r.file = "html"
           THEN /\ uploads' = uploads \cup {FileName(Val(r.user))}
                /\ users' = [users EXCEPT
                               ![Val(r.user)].history_file = Some(FileName(Val(r.user)))]
                /\ response' = Some(Flash(Redirect("main.dashboard"),
                                          "Trade history uploaded successfully!"))
           ELSE /\ response' = Some(IF r.file = "none"
                                    THEN Flash(Redirect("main.upload"), "No file selected.")
                                    ELSE Flash(Page("upload.html"), "Please upload an HTML file."))
                /\ UNCHANGED <<users, uploads>>
    /\ request' = None
    /\ analyzeCall' = None
    /\ UNCHANGED now
    /\ UNCHANGED pipevars

\* routes.py:93-95 and 138-140: the subscription runs 30 days from now
Activate(id) ==
    users' = [users EXCEPT ![id].is_subscribed = TRUE,
                           ![id].subscription_end = Some(now + SUBSCRIPTION_DAYS)]

\* routes.py:90-98
subscribe ==
    /\ ~IsNone(request) /\ Val(request).route = "subscribe"
    /\ LET r == Val(request)
       IN  IF ~IsNone(login_required(r))
           THEN response' = login_required(r) /\ users' = users
           ELSE /\ response' = Some(Flash(Redirect("main.dashboard"),
                                          "Subscription activated for 30 days!"))
                /\ Activate(Val(r.user))
    /\ request' = None
    /\ analyzeCall' = None
    /\ UNCHANGED <<uploads, now>>
    /\ UNCHANGED pipevars

\* routes.py:135-143
payment_success ==
    /\ ~IsNone(request) /\ Val(request).route = "payment_success"
    /\ LET r == Val(request)
       IN  IF ~IsNone(login_required(r))
           THEN response' = login_required(r) /\ users' = users
           ELSE /\ response' = Some(Flash(Redirect("main.dashboard"),
                                          "Payment successful! You are now subscribed."))
                /\ Activate(Val(r.user))
    /\ request' = None
    /\ analyzeCall' = None
    /\ UNCHANGED <<uploads, now>>
    /\ UNCHANGED pipevars

api_data_AdminFirst ==
    /\ ~IsNone(request) /\ Val(request).route = "api_data"
    /\ LET r == Val(request)
       IN  IF ~IsNone(Guarded(r))
           THEN response' = Guarded(r) /\ analyzeCall' = None
           ELSE LET usr == users[Val(r.user)]
                IN  IF usr.is_admin
                    THEN \E o \in CallOutcomes :
                           /\ analyzeCall' = Some(GetTradeData)
                           /\ response' = Some(JsonOf(o))
                    ELSE IF ~IsNone(usr.history_file) /\ Val(usr.history_file) \in uploads
                    THEN \E o \in CallOutcomes :
                           /\ analyzeCall' = Some(AnalyzeUserFile(Val(usr.history_file)))
                           /\ response' = Some(JsonOf(o))
                    ELSE /\ analyzeCall' = None
                         /\ response' = Some(Json(200, NoHistoryText))
    /\ request' = None
    /\ UNCHANGED <<users, uploads, now>>
    /\ UNCHANGED pipevars

\* routes.py:146-166
api_data ==
    /\ ~IsNone(request) /\ Val(request).route = "api_data"
    /\ LET r == Val(request)
       IN  IF ~IsNone(Guarded(r))
           THEN response' = Guarded(r) /\ analyzeCall' = None
           ELSE LET usr == users[Val(r.user)]
                IN  IF ~IsNone(usr.history_file) /\ Val(usr.history_file) \in uploads
                    THEN \E o \in CallOutcomes :
                           /\ analyzeCall' = Some(AnalyzeUserFile(Val(usr.history_file)))
                           /\ response' = Some(JsonOf(o))
                    ELSE IF usr.is_admin
                    THEN \E o \in CallOutcomes :
                           /\ analyzeCall' = Some(GetTradeData)
                           /\ response' = Some(JsonOf(o))
                    ELSE /\ analyzeCall' = None
                         /\ response' = Some(Json(200, NoHistoryText))
    /\ request' = None
    /\ UNCHANGED <<users, uploads, now>>
    /\ UNCHANGED pipevars

\* make_admin.py:7-11, run by the operator
MakeAdmin ==
    /\ ~users[ADMIN_USER].is_admin
    /\ users' = [users EXCEPT ![ADMIN_USER].is_admin = TRUE,
                              ![ADMIN_USER].is_subscribed = TRUE]
    /\ UNCHANGED <<uploads, now, request, response, analyzeCall>>
    /\ UNCHANGED pipevars

\* time passes: half a subscription period
Tick ==
    /\ now < MaxTicks * (SUBSCRIPTION_DAYS \div 2)
    /\ now' = now + SUBSCRIPTION_DAYS \div 2
    /\ UNCHANGED <<users, uploads, request, response, analyzeCall>>
    /\ UNCHANGED pipevars

\* a file of UPLOAD_FOLDER disappears (the os.path.exists of routes.py:154
\* is there for that)
StorageLost ==
    /\ \E f \in uploads : uploads' = uploads \ {f}
    /\ UNCHANGED <<users, now, request, response, analyzeCall>>
    /\ UNCHANGED pipevars

WebNext ==
    \/ Request
    \/ upload
    \/ subscribe
    \/ payment_success
    \/ api_data
    \/ MakeAdmin
    \/ Tick
    \/ StorageLost

WebSpec == Init /\ [][WebNext]_vars

(***************************************************************************)
(* Properties.                                                             *)
(***************************************************************************)
Returned == pc = "done"
Result == Val(ret)
Has(r, f) == f \in DOMAIN r
InReportPath == pc \in {"exists", "open", "read", "parse", "done", "raised"}

\* the text get_mt5_live_data returns for a mismatch (analyze.py:45)
MismatchText ==
    <<"Wrong account", " (", LoginText(OTHER_ACCOUNT), "), need ", LoginText(TARGET_ACCOUNT)>>
Mismatched == entry = "get_trade_data" /\ liveError = Some(MismatchText)

\* C1: when the live adapter failed on an account mismatch, get_trade_data
\* never enters the report path in that run, and what it returns has
\* data_source ERROR and carries the mismatch text.
C1_MismatchNoFallback ==
    Mismatched =>
        /\ htmlCalls = 0
        /\ pc \in {"dispatch", "done"}
        /\ Returned => /\ Result.data_source = "ERROR"
                       /\ Result.error = MismatchText

C1_Witness ==
    Mismatched /\ Returned /\ Result.data_source = "ERROR" /\ conn = "open"

\* C2 as stated: after a live failure other than the mismatch the report
\* path ran exactly once and the result has data_source HTML (REPORT); after
\* a live success the report path did not run and the result is MT5_LIVE.
C2_Original ==
    (entry = "get_trade_data" /\ Returned) =>
        IF ~IsNone(liveData)
        THEN htmlCalls = 0 /\ Result.data_source = "MT5_LIVE"
        ELSE IF Mismatched THEN TRUE
        ELSE /\ htmlCalls = 1
             /\ Has(Result, "data_source")
             /\ Result.data_source = "HTML"

FailedWithoutPhrase ==
    /\ entry = "get_trade_data"
    /\ IsNone(liveData)
    /\ ~IsNone(liveError)
    /\ ~Contains(Val(liveError), "Wrong account")

\* C2 amended: a live failure whose text lacks "Wrong account" enters the
\* report path exactly once, and what get_trade_data then returns is
\* get_html_data's value: data_source HTML when history.html exists and is
\* not blank after decoding, else an object holding only "error"; a live
\* success never enters the report path and returns data_source MT5_LIVE.
C2_FallbackOnce ==
    /\ (entry = "get_trade_data" /\ ~IsNone(liveData)) =>
          /\ htmlCalls = 0
          /\ pc \in {"dispatch", "done"}
          /\ Returned => Result.data_source = "MT5_LIVE"
    /\ (FailedWithoutPhrase /\ InReportPath) => htmlCalls = 1
    /\ (FailedWithoutPhrase /\ Returned) =>
          IF ~IsNone(html) /\ ~Val(html).blank
          THEN Has(Result, "data_source") /\ Result.data_source = "HTML"
          ELSE DOMAIN Result = {"error"}

C2_Witness ==
    /\ FailedWithoutPhrase /\ Returned /\ htmlCalls = 1
    /\ DOMAIN Result = {"error"} /\ IsNone(html)

\* C3: get_trade_data and analyze_user_file never raise to their caller.
C3_NeverRaises == pc # "raised"

\* C4: once get_mt5_live_data has returned the connection it initialized is
\* closed, and outside the with block of _read_html_robust the report file
\* is closed.
C4_HandlesReleased ==
    /\ pc \notin {"live_start", "live_account", "live_deals", "live_agg"} => conn = "closed"
    /\ pc # "read" => ~fileOpen

\* C5: a successful early return of get_mt5_live_data (no deal, or no exit
\* deal) has every statistic zero and the four series empty.
C5_ZeroStatistics ==
    [][(pc = "live_deals" /\ pc' = "dispatch" /\ ~IsNone(liveData')) =>
          LET r == Val(liveData')
          IN  /\ r.total_trades = 0 /\ r.total_profit = 0
              /\ r.wins = 0 /\ r.losses = 0 /\ r.winrate.n = 0
              /\ r.equity_curve = <<>> /\ r.profit_by_symbol = <<>>
              /\ r.profit_by_hour = <<>> /\ r.monthly_profit = <<>>]_vars

SnapshotFields == {"balance", "equity", "margin", "free_margin"}

\* C6: every returned result with data_source MT5_LIVE holds the four
\* account snapshot fields, and no other returned result holds any of them.
C6_SnapshotFields ==
    Returned =>
        IF Has(Result, "data_source") /\ Result.data_source = "MT5_LIVE"
        THEN SnapshotFields \subseteq DOMAIN Result
        ELSE SnapshotFields \cap DOMAIN Result = {}

\* What the Profit Trades and Loss Trades values of the model's reports
\* say, read off the texts: the count in front, and the percentage between
\* parentheses (None where the text holds none).
LabelledCount(o) ==
    IF IsNone(o) \/ o = Some(<<" ">>) THEN None
    ELSE IF o \in {Some(T_7_70), Some(T_7_150), Some(<<"7">>)} THEN Some(7)
    ELSE IF o = Some(T_6_6667) THEN Some(6)
    ELSE IF o \in {Some(T_3_30), Some(<<"3">>)} THEN Some(3)
    ELSE IF o = Some(<<"-", "2">>) THEN Some(-2)
    ELSE Some(0)
LabelledPct(o) ==
    IF o = Some(T_7_70) THEN Some(Ratio(70, 1))
    ELSE IF o = Some(T_6_6667) THEN Some(Ratio(6667, 100))
    ELSE IF o = Some(T_7_150) THEN Some(Ratio(150, 1))
    ELSE IF o = Some(T_0_NEG5) THEN Some(Ratio(-5, 1))
    ELSE IF o = Some(T_0_0) THEN Some(Ratio(0, 1))
    ELSE None

ReportReturned ==
    Returned /\ Has(Result, "data_source") /\ Result.data_source \in {"HTML", "UPLOADED"}

\* C7: on the report path the emitted winrate is the labelled percentage of
\* Profit Trades divided by 100 when the value carries one, whatever the
\* counts; else wins / (wins + losses) when both counts are present and
\* wins + losses > 0; else 0.
C7_ReportWinrate ==
    ReportReturned =>
        LET w == Val(html).fields[L_WINS]
            l == Val(html).fields[L_LOSSES]
            pct == LabelledPct(w)
            wins == LabelledCount(w)
            losses == LabelledCount(l)
        IN  IF ~IsNone(pct)
            THEN RatEq(Result.winrate, Ratio(Val(pct).n, Val(pct).d * 100))
            ELSE IF ~IsNone(wins) /\ ~IsNone(losses) /\ Val(wins) + Val(losses) > 0
            THEN RatEq(Result.winrate, Ratio(Val(wins), Val(wins) + Val(losses)))
            ELSE Result.winrate.n = 0

\* a report whose percentage (150%) disagrees with its counts (7 and 3)
C7_Witness ==
    /\ ReportReturned
    /\ Val(html).fields[L_WINS] = Some(T_7_150)
    /\ Val(html).fields[L_LOSSES] = Some(<<"3">>)
    /\ RatEq(Result.winrate, Ratio(3, 2))

LiveReturned ==
    Returned /\ Has(Result, "data_source") /\ Result.data_source = "MT5_LIVE"

\* C8: on the live path the emitted winrate is wins / (wins + losses), to
\* the 4 decimals it is rounded to, whenever some exit deal was won or lost.
C8_LiveWinrate ==
    (LiveReturned /\ Result.wins + Result.losses > 0) =>
        LET wr == Result.winrate
            w == Result.wins
            t == Result.wins + Result.losses
        IN  Abs(wr.n * t - w * wr.d) * 20000 <= wr.d * t

\* C9: the winrate of every returned result lies in [0, 1].
C9_WinrateInUnit ==
    (Returned /\ Has(Result, "winrate")) => RatInUnit(Result.winrate)

RECURSIVE PrefixSum(_, _)
PrefixSum(f, k) == IF k = 0 THEN 0 ELSE PrefixSum(f, k - 1) + f[k].profit

IsArrangementOf(f, rows) ==
    /\ Len(f) = Len(rows)
    /\ \E q \in Perms(Len(rows)) : \A i \in 1..Len(rows) : f[i] = rows[q[i]]

\* by timestamp, the trades without one last
TimeOrdered(f) ==
    \A i, j \in 1..Len(f) :
        i < j => \/ IsNone(f[j].t)
                 \/ ~IsNone(f[i].t) /\ Val(f[i].t) <= Val(f[j].t)

\* the curve over the N trades: N points, x = 1..N, y the rounded sum of the
\* profits of the first k trades of a time-ordered arrangement f of them
CurveOf(curve, f, trades) ==
    /\ IsArrangementOf(f, trades)
    /\ TimeOrdered(f)
    /\ Len(curve) = Len(trades)
    /\ \A k \in 1..Len(curve) :
          /\ curve[k].x = k
          /\ curve[k].y = RoundDiv(PrefixSum(f, k), 10)

\* C10: for N closed trades, equity_curve has N points with x = 1, ..., N
\* and y the sum of the first k profits in time order, rounded to 2
\* decimals when emitted; on the live path (aggregation and the two early
\* returns) and on the report path.
C10_EquityCurve ==
    [][/\ (pc = "live_agg" /\ ~IsNone(liveData')) =>
             CurveOf(Val(liveData').equity_curve, df', ClosedDeals(Val(deals)))
       /\ (pc = "live_deals" /\ ~IsNone(liveData')) =>
             Val(liveData').equity_curve = <<>>
       /\ (pc = "parse" /\ ~Val(html).blank) =>
             CurveOf(Val(ret').equity_curve, df',
                     _parse_positions_rows_for_charts(Val(html))[1])]_vars

\* a curve of MaxRows points whose last value differs from the sum of the
\* rounded profits
C10_Witness ==
    /\ Returned /\ Has(Result, "equity_curve")
    /\ Len(Result.equity_curve) = MaxRows
    /\ Result.equity_curve[1].y = 0
    /\ Result.equity_curve[2].y = 1

SymbolsIn(trades) == {trades[i].symbol[1] : i \in 1..Len(trades)}

RECURSIVE SymbolSum(_, _)
SymbolSum(trades, s) ==
    IF Len(trades) = 0 THEN 0
    ELSE (IF Head(trades).symbol[1] = s THEN Head(trades).profit ELSE 0)
         + SymbolSum(Tail(trades), s)

FirstIndex(trades, s) ==
    CHOOSE i \in 1..Len(trades) :
        /\ trades[i].symbol[1] = s
        /\ \A j \in 1..(i - 1) : trades[j].symbol[1] # s

\* one entry per distinct symbol of the trades, its profit the symbol's
\* summed profit (rounded when emitted), in non-increasing order of the sums
BySymbolOf(out, trades) ==
    /\ Len(out) = Cardinality(SymbolsIn(trades))
    /\ {out[j].symbol : j \in 1..Len(out)} = SymbolsIn(trades)
    /\ \A j \in 1..Len(out) :
          out[j].profit = RoundDiv(SymbolSum(trades, out[j].symbol), 10)
    /\ \A i, j \in 1..Len(out) :
          i < j => SymbolSum(trades, out[i].symbol) >= SymbolSum(trades, out[j].symbol)

\* entries with equal sums stand in the order their symbols first occur
TiesFirstEncountered(out, trades) ==
    \A i, j \in 1..Len(out) :
        (i < j /\ SymbolSum(trades, out[i].symbol) = SymbolSum(trades, out[j].symbol))
            => FirstIndex(trades, out[i].symbol) < FirstIndex(trades, out[j].symbol)

Timed(trades) == {i \in 1..Len(trades) : ~IsNone(trades[i].t)}
TimedHours(trades) == {Val(trades[i].t) % 24 : i \in Timed(trades)}

RECURSIVE HourSum(_, _)
HourSum(trades, h) ==
    IF Len(trades) = 0 THEN 0
    ELSE (IF ~IsNone(Head(trades).t) /\ Val(Head(trades).t) % 24 = h
          THEN Head(trades).profit ELSE 0)
         + HourSum(Tail(trades), h)

\* one entry per hour of the timestamped trades, hours in 0..23 and
\* strictly ascending, each profit the hour's sum (rounded when emitted)
ByHourOf(out, trades) ==
    /\ Len(out) = Cardinality(TimedHours(trades))
    /\ {out[j].hour : j \in 1..Len(out)} = TimedHours(trades)
    /\ \A j \in 1..Len(out) :
          /\ out[j].hour \in 0..23
          /\ out[j].profit = RoundDiv(HourSum(trades, out[j].hour), 10)
    /\ \A i, j \in 1..Len(out) : i < j => out[i].hour < out[j].hour

\* every trade, timestamped or not, is a point of the curve and a summand
\* of its symbol's profit
AllTradesCounted(charts, trades) ==
    /\ Len(charts.equity_curve) = Len(trades)
    /\ Len(trades) > 0 =>
          charts.equity_curve[Len(trades)].y = RoundDiv(PrefixSum(trades, Len(trades)), 10)
    /\ BySymbolOf(charts.profit_by_symbol, trades)

\* C12: for the trades given to _build_charts, profit_by_hour has one entry
\* per hour of day occurring among the timestamped trades, each hour in
\* 0..23, in strictly ascending hour order, each profit the sum over the
\* timestamped trades of that hour; a trade without a timestamp is in no
\* profit_by_hour entry but still in equity_curve and profit_by_symbol.
C12_ProfitByHour ==
    [][(pc = "parse" /\ ~Val(html).blank) =>
          LET trades == _parse_positions_rows_for_charts(Val(html))[1]
          IN  /\ ByHourOf(Val(ret').profit_by_hour, trades)
              /\ AllTradesCounted(Val(ret'), trades)]_vars

\* two trades without a timestamp and one with: one hour entry, three curve
\* points, and the untimed profits in the curve and the symbol sums only
C12_Witness ==
    /\ pc = "done" /\ ~IsNone(html) /\ ~IsNone(Val(html).positions)
    /\ LET trades == _parse_positions_rows_for_charts(Val(html))[1]
       IN  /\ Len(trades) = 3
           /\ Cardinality(Timed(trades)) = 1
    /\ Len(Result.profit_by_hour) = 1
    /\ Len(Result.equity_curve) = 3
    /\ Len(Result.profit_by_symbol) = 2
    /\ Result.equity_curve[3].y = Result.profit_by_hour[1].profit + 1

\* the part of C13 that does not depend on open() and read() succeeding
C13_UnlessItRaises ==
    entry = "analyze_user_file" =>
        /\ liveCalls = 0
        /\ Returned =>
              IF IsNone(html) \/ Val(html).blank
              THEN DOMAIN Result = {"error"} /\ Len(Result.error) > 0
              ELSE /\ Result.data_source = "UPLOADED"
                   /\ Result.monthly_profit = <<>>

\* C13: analyze_user_file never attempts the live feed; for a path that
\* does not exist, or a file whose decoded text is blank, it returns a
\* descriptive error result without raising, and for any other file it
\* returns a result with data_source UPLOADED and empty monthly_profit.
C13_AnalyzeUserFile ==
    entry = "analyze_user_file" =>
        /\ liveCalls = 0
        /\ pc # "raised"
        /\ Returned =>
              IF IsNone(html) \/ Val(html).blank
              THEN DOMAIN Result = {"error"} /\ Len(Result.error) > 0
              ELSE /\ Result.data_source = "UPLOADED"
                   /\ Result.monthly_profit = <<>>

EmptySymbol(tr) == Len(_strip_tags(tr.tds[3])) = 0
BadProfit(tr) == IsNone(_parse_money(Some(_strip_tags(tr.tds[Len(tr.tds)]))))

\* C14: _parse_positions_rows_for_charts returns a pair (trades, counters)
\* for every report text; rows_parsed is the number of returned trades and
\* is at most rows_seen; rows_seen counts the rows passing the structural
\* filter; a structurally valid row with an empty symbol or an unparseable
\* profit is counted in rows_seen and emits no trade; the trades keep the
\* report's row order; without a Positions heading the trades are empty,
\* positions_block_found is false and both counters are 0.
C14_PositionsExtractor ==
    ~IsNone(html) =>
        LET h == Val(html)
            out == _parse_positions_rows_for_charts(h)
            rows == out[1]
            dbg == out[2]
        IN  /\ dbg.rows_parsed = Len(rows)
            /\ dbg.rows_parsed <= dbg.rows_seen
            /\ IF IsNone(h.positions)
               THEN /\ rows = <<>>
                    /\ dbg = [positions_block_found |-> FALSE,
                              rows_seen |-> 0, rows_parsed |-> 0]
               ELSE /\ dbg.positions_block_found
                    /\ dbg.rows_seen = CountSeen(Val(h.positions))
                    /\ rows = ParsedRows(Val(h.positions))
            /\ (Returned /\ Has(Result, "chart_debug")) =>
                  /\ Result.chart_debug = dbg
                  /\ Len(Result.equity_curve) = dbg.rows_parsed

\* a report of three structurally valid rows, one with an empty symbol and
\* one with an unparseable profit: three rows seen, one trade
C14_Witness ==
    /\ Returned /\ Has(Result, "chart_debug")
    /\ ~IsNone(Val(html).positions)
    /\ LET trs == Val(Val(html).positions)
       IN  /\ Len(trs) = 3
           /\ RowSeen(trs[1]) /\ EmptySymbol(trs[1])
           /\ RowSeen(trs[2]) /\ ~EmptySymbol(trs[2]) /\ BadProfit(trs[2])
           /\ RowSeen(trs[3]) /\ ~EmptySymbol(trs[3]) /\ ~BadProfit(trs[3])
    /\ Result.chart_debug.rows_seen = 3
    /\ Result.chart_debug.rows_parsed = 1
    /\ Len(Result.equity_curve) = 1

HasExistingFile(usr) ==
    ~IsNone(usr.history_file) /\ Val(usr.history_file) \in uploads

\* the step in which the /api/data handler answers the request in flight
ApiDataAnswered ==
    /\ ~IsNone(request) /\ Val(request).route = "api_data"
    /\ IsNone(request')

\* the request in flight comes from a logged-in user whose subscription is
\* active: it passes login_required and subscription_required
PassesChecks ==
    /\ ~IsNone(Val(request).user)
    /\ is_subscription_active(users[Val(Val(request).user)])

Requester == users[Val(Val(request).user)]

\* get_trade_data is invoked only for a logged-in admin with an active
\* subscription and no existing uploaded file
LiveOnlyForAdminWithoutFile ==
    (~IsNone(analyzeCall') /\ Val(analyzeCall').fn = "get_trade_data") =>
        /\ PassesChecks
        /\ Requester.is_admin
        /\ ~HasExistingFile(Requester)

\* C15 as stated: in /api/data, over any sequence of upload, subscribe and
\* data requests, get_trade_data is invoked only for an authenticated user
\* with an active subscription who is admin and has no existing uploaded
\* file; a user with an existing uploaded file always gets the analysis of
\* their own file user_<id>_history.html; a non-admin user without a file
\* gets an error result and never triggers a live-feed attempt.
C15_Original ==
    [][ApiDataAnswered =>
          /\ LiveOnlyForAdminWithoutFile
          /\ (~IsNone(Val(request).user) /\ HasExistingFile(Requester)) =>
                /\ analyzeCall' = Some(AnalyzeUserFile(FileName(Val(Val(request).user))))
                /\ response' = Some(Json(200, "analysis"))
          /\ (~IsNone(Val(request).user) /\ ~Requester.is_admin
                /\ ~HasExistingFile(Requester)) =>
                /\ response' = Some(Json(200, NoHistoryText))
                /\ IsNone(analyzeCall')]_vars

\* C15, amended: in /api/data, get_trade_data is invoked only for an
\* authenticated user with an active subscription who is admin and has no
\* existing uploaded file; a request that passes the login and subscription
\* checks from a user with an existing uploaded file is answered by
\* analyze_user_file on that user's own file user_<id>_history.html and by
\* nothing else (its result, or the 500 answer when it raises); one from a
\* non-admin user without an existing file gets the "No trade history
\* uploaded" error and no analyze call; a request that fails a check is
\* redirected and makes no analyze call.
C15_ApiData ==
    [][ApiDataAnswered =>
          /\ LiveOnlyForAdminWithoutFile
          /\ (PassesChecks /\ HasExistingFile(Requester)) =>
                /\ analyzeCall' = Some(AnalyzeUserFile(FileName(Val(Val(request).user))))
                /\ response' \in {Some(JsonOf(o)) : o \in CallOutcomes}
          /\ (PassesChecks /\ ~Requester.is_admin /\ ~HasExistingFile(Requester)) =>
                /\ response' = Some(Json(200, NoHistoryText))
                /\ IsNone(analyzeCall')
          /\ ~PassesChecks =>
                /\ Val(response').kind = "redirect"
                /\ IsNone(analyzeCall')]_vars

\* the admin's data request was answered from the admin's own uploaded file
\* while the other user also has one
C15_Witness ==
    /\ ~IsNone(response) /\ Val(response).kind = "json"
    /\ users[ADMIN_USER].is_admin
    /\ \A u \in Users : HasExistingFile(users[u])
    /\ analyzeCall = Some(AnalyzeUserFile(FileName(ADMIN_USER)))

\* a user whose subscription has lapsed asks for the data of the file they
\* uploaded and is sent to the pricing page
C15_LapsedWithFile ==
    /\ ~IsNone(response) /\ Val(response).body = "main.pricing"
    /\ IsNone(analyzeCall)
    /\ \E u \in Users :
         /\ HasExistingFile(users[u])
         /\ ~is_subscription_active(users[u])

====
